---------------------------- MODULE Spec2Model ----------------------------
(***************************************************************************)
(* A model of the two Flask inference servers of the repository:           *)
(*   server-code/CVServer.py   POST /segment  (detection response builder) *)
(*   server-code/LLMServer.py  POST /llm      (prompt formatter, reply)    *)
(*                                                                         *)
(* Text is a sequence of atoms.  An atom is one character, or one of the   *)
(* words the two template markers are made of ("<start_of_turn>",          *)
(* "<end_of_turn>", "assistant", "user", "system", the system sentence).   *)
(* No marker overlaps itself or the other one, so searching and splitting  *)
(* a sequence of atoms is what Python does on the characters.              *)
(* Numbers are fixed point: the model's floats are thousandths, what the   *)
(* handler rounds to two decimals is hundredths.                           *)
(***************************************************************************)
EXTENDS Integers, Sequences, FiniteSets, TLC

VARIABLES
    cv_model,       \* CVServer.py module global `model`
    llm_model,      \* LLMServer.py module globals `tokenizer`, `model`
    pc,             \* per request: the handler's position
    route,          \* per request: "/segment" or "/llm"
    data,           \* per request: request.get_json()
    frame,          \* per request: the handler's local variables
    response,       \* per request: what the handler returned
    calls,          \* per request: calls made to the opaque collaborators
    model_out,      \* per request: what the opaque model returned to it
    origin,         \* per request: (result, index) of each object appended
    xpc,            \* position of the pure-function harness
    user_prompt,    \* argument of format_prompt
    reply_text,     \* text the generation appends to the formatted prompt
    tail_text,      \* text following the reply's end marker
    full_response,  \* argument of extract_assistant_response
    extracted       \* result of extract_assistant_response

vars == <<cv_model, llm_model, pc, route, data, frame, response, calls,
          model_out, origin,
          xpc, user_prompt, reply_text, tail_text, full_response, extracted>>

serverVars == <<cv_model, llm_model, pc, route, data, frame, response, calls,
                model_out, origin>>

pureVars == <<xpc, user_prompt, reply_text, tail_text, full_response, extracted>>

---------------------------------------------------------------------------
(* Bounds of the model.                                                    *)

MaxTextLen == 5

MaxPromptLen == 2

MaxReplyLen == 2

MaxTailLen == 2

\* result sets one model call returns
MaxResults == 2

\* detections one model call returns, over all its result sets
MaxDetections == 3

\* tokens one generation appends (max_new_tokens is 160 in the source)
MaxNewTokens == 3

\* concurrent requests
NumReqs == 2

---------------------------------------------------------------------------
(* Text atoms.                                                             *)

SOT == "<start_of_turn>"

EOT == "<end_of_turn>"

ASSISTANT == "assistant"

NL == "\n"

SP == " "

TAB == "\t"

SYSTEM_TEXT == "You are a precise assistant for visual scene analysis. Follow instructions exactly and respond concisely."

\* the characters str.strip() with no argument removes (those the model uses)
Whitespace == {SP, NL, TAB}

\* all texts over alphabet A of length at most n
TextsUpTo(A, n) == UNION {[1..k -> A] : k \in 0..n}

---------------------------------------------------------------------------
(* Python's str operations, on sequences of atoms.                         *)

Min(S) == CHOOSE x \in S : \A y \in S : x <= y

Max(S) == CHOOSE x \in S : \A y \in S : x >= y

\* s[i:] with a 0-based start, as Python slices
SliceFrom(s, i) == SubSeq(s, i + 1, Len(s))

\* s[:i]
SliceTo(s, i) == SubSeq(s, 1, i)

\* s.find(sub): the 0-based index of the first occurrence, -1 when none
Find(s, sub) ==
    LET hits == {i \in 0..(Len(s) - Len(sub)) : SubSeq(s, i + 1, i + Len(sub)) = sub}
    IN  IF hits = {} THEN -1 ELSE Min(hits)

\* sub in s
In(sub, s) == Find(s, sub) >= 0

\* s.split(sep): the pieces between the occurrences of sep, found left to right
RECURSIVE Split(_, _)
Split(s, sep) ==
    LET at == Find(s, sep)
    IN  IF at < 0 THEN <<s>>
        ELSE <<SliceTo(s, at)>> \o Split(SliceFrom(s, at + Len(sep)), sep)

\* s.lstrip(chars)
LStrip(s, chars) ==
    LET keep == {i \in 1..Len(s) : s[i] \notin chars}
    IN  IF keep = {} THEN <<>> ELSE SubSeq(s, Min(keep), Len(s))

\* s.rstrip(chars)
RStrip(s, chars) ==
    LET keep == {i \in 1..Len(s) : s[i] \notin chars}
    IN  IF keep = {} THEN <<>> ELSE SubSeq(s, 1, Max(keep))

\* s.strip()
Strip(s) == RStrip(LStrip(s, Whitespace), Whitespace)

---------------------------------------------------------------------------
(* LLMServer.py: prompt construction and reply extraction.                 *)

\* a slip: the assistant turn is not opened
format_prompt_mutant(p) ==
    <<SOT, "system", NL, SYSTEM_TEXT, NL, EOT, NL, SOT, "user", NL>>
    \o p
    \o <<NL, EOT, NL>>

format_prompt(p) ==
    <<SOT, "system", NL, SYSTEM_TEXT, NL, EOT, NL, SOT, "user", NL>>
    \o p
    \o <<NL, EOT, NL, SOT, ASSISTANT, NL>>

\* a slip: the piece after the first marker instead of the last
LastPartMutant(parts) == parts[2]

\* parts[-1] of line 64: the piece after the last marker
LastPart(parts) == parts[Len(parts)]

\* a slip: the truncation left out
TruncateAtMutant(s, marker) == s

\* s.split(marker)[0] of lines 65 and 66: s up to the first marker
TruncateAt(s, marker) == Split(s, marker)[1]

extract_assistant_response(text) ==
    IF In(<<SOT, ASSISTANT>>, text)
    THEN LET parts == Split(text, <<SOT, ASSISTANT>>)
             part1 == LStrip(LastPart(parts), {NL, SP})
             part2 == TruncateAt(part1, <<EOT>>)
             part3 == TruncateAt(part2, <<SOT>>)
         IN  Strip(part3)
    ELSE Strip(text)

---------------------------------------------------------------------------
(* The state of the servers with the requests of R not yet received.       *)

\* model.names of the loaded detection model: class index -> label
ModelNames == (0 :> <<"C", "a", "t">>) @@ (1 :> <<"d", "o", "g">>)

LoadedCvModel == [weights |-> "YOUR_MODEL_HERE", names |-> ModelNames]

LoadedLlmModel == [tokenizer |-> "google/gemma-3-1b-it", model |-> "google/gemma-3-1b-it"]

NoFrame == [none |-> TRUE]

NoResponse == [status |-> 0]

NoCalls == [decode |-> 0, infer |-> 0, tokenizer |-> 0, generate |-> 0]

ServerInit(R) ==
    /\ cv_model = LoadedCvModel
    /\ llm_model = LoadedLlmModel
    /\ pc = [r \in R |-> "idle"]
    /\ route = [r \in R |-> ""]
    /\ data = [r \in R |-> <<>>]
    /\ frame = [r \in R |-> NoFrame]
    /\ response = [r \in R |-> NoResponse]
    /\ calls = [r \in R |-> NoCalls]
    /\ model_out = [r \in R |-> <<>>]
    /\ origin = [r \in R |-> <<>>]

PureIdle ==
    /\ xpc = "off"
    /\ user_prompt = <<>>
    /\ reply_text = <<>>
    /\ tail_text = <<>>
    /\ full_response = <<>>
    /\ extracted = <<>>

---------------------------------------------------------------------------
(* Request handling shared by the two servers.                             *)

Reqs == 1..NumReqs

\* a slip: the handler keeps the value in a module global, one for all requests
BindShared(f, r, v) == [q \in DOMAIN f |-> v]

\* an assignment to a local of the handler serving request r
Bind(f, r, v) == [f EXCEPT ![r] = v]

\* d.get(key, "")
Get(d, key) == IF key \in DOMAIN d THEN d[key] ELSE <<>>

\* jsonify({"error": msg}), 400
BadRequest(msg) == [status |-> 400, body |-> [error |-> msg]]

\* jsonify(body), 200
Ok(body) == [status |-> 200, body |-> body]

\* an exception leaves the handler: Flask answers 500 with its HTML error page
Unhandled == [status |-> 500, body |-> [html |-> "Internal Server Error"]]

Called(c, what) == [c EXCEPT ![what] = @ + 1]

\* a POST arrives on route rt with one of the JSON bodies of Bodies
Post(r, rt, Bodies) ==
    /\ pc[r] = "idle"
    /\ \E d \in Bodies :
        /\ data' = [data EXCEPT ![r] = d]
        /\ route' = [route EXCEPT ![r] = rt]
        /\ pc' = [pc EXCEPT ![r] = "recv"]
    /\ UNCHANGED <<cv_model, llm_model, frame, response, calls, model_out, origin>>
    /\ UNCHANGED pureVars

---------------------------------------------------------------------------
(* CVServer.py: POST /segment.                                             *)

CONF_THRESHOLD == 650

LowerChar(c) ==
    CASE c = "A" -> "a"
      [] c = "C" -> "c"
      [] c = "D" -> "d"
      [] c = "T" -> "t"
      [] OTHER -> c

\* s.lower()
Lower(s) == [i \in 1..Len(s) |-> LowerChar(s[i])]

\* round(x, 2): thousandths to hundredths, a tie to the even neighbour
Round2(x) ==
    LET q == x \div 10
        m == x % 10
    IN  IF m < 5 THEN q
        ELSE IF m > 5 THEN q + 1
        ELSE IF q % 2 = 0 THEN q ELSE q + 1

\* a slip: the test for the field left out
ImageMissingMutant(d) == FALSE

\* "image" not in data
ImageMissing(d) == "image" \notin DOMAIN d

\* base64.b64decode(data["image"]) returns bytes
B64Decodes(img) == img # "bad_base64"

\* Image.open(...).convert("RGB") returns an image
ImageOpens(img) == img = "png"

\* data.get("target", "").strip().lower()
TargetLabel(d) == Lower(Strip(Get(d, "target")))

\* a slip: the threshold itself is rejected too
BelowThresholdMutant(conf) == conf <= CONF_THRESHOLD

\* conf < 0.65
BelowThreshold(conf) == conf < CONF_THRESHOLD

\* target_label and label.lower() != target_label
LabelRejected(label, target_label) ==
    target_label # <<>> /\ Lower(label) # target_label

\* a slip: the mask is looked up at the object's place in the output
MaskIndexMutant(i, output) == Len(output)

\* the index the mask list is read at: the detection's own i
MaskIndex(i, output) == i

\* hasattr(result, "masks") and result.masks is not None and i < len(result.masks.xy)
HasMask(result, m) == result.masks.present /\ m < Len(result.masks.xy)

\* [[round(float(p[0]), 2), round(float(p[1]), 2)] for p in segment]
SegmentPoints(segment) ==
    [n \in 1..Len(segment) |-> <<Round2(segment[n][1]), Round2(segment[n][2])>>]

\* the dict of lines 59-68
BaseObject(label, conf, box) ==
    [label |-> label,
     score |-> Round2(conf),
     box |-> [x |-> Round2(box[1]),
              y |-> Round2(box[2]),
              width |-> Round2(box[3] - box[1]),
              height |-> Round2(box[4] - box[2])]]

\* obj["mask"] = {"points": segment_points}
WithMask(obj, points) ==
    [k \in DOMAIN obj \cup {"mask"} |->
        IF k = "mask" THEN [points |-> points] ELSE obj[k]]

\* lines 29-31
SegmentRecv(r) ==
    /\ pc[r] = "recv"
    /\ route[r] = "/segment"
    /\ IF ImageMissing(data[r])
       THEN /\ response' = Bind(response, r, BadRequest("No image provided"))
            /\ pc' = [pc EXCEPT ![r] = "done"]
       ELSE /\ pc' = [pc EXCEPT ![r] = "decode"]
            /\ UNCHANGED response
    /\ UNCHANGED <<cv_model, llm_model, route, data, frame, calls, model_out, origin>>
    /\ UNCHANGED pureVars

\* lines 34-39: decode the image, read the target
SegmentDecode(r) ==
    /\ pc[r] = "decode"
    /\ calls' = [calls EXCEPT ![r] = Called(@, "decode")]
    /\ IF /\ "image" \in DOMAIN data[r]     \* data["image"] raises KeyError
          /\ B64Decodes(data[r].image)
          /\ ImageOpens(data[r].image)
       THEN /\ frame' = Bind(frame, r,
                   [target_label |-> TargetLabel(data[r]),
                    results |-> <<>>, output |-> <<>>, ri |-> 1, i |-> 0])
            /\ pc' = [pc EXCEPT ![r] = "infer"]
            /\ UNCHANGED response
       ELSE /\ response' = Bind(response, r, Unhandled)
            /\ pc' = [pc EXCEPT ![r] = "done"]
            /\ UNCHANGED frame
    /\ UNCHANGED <<cv_model, llm_model, route, data, model_out, origin>>
    /\ UNCHANGED pureVars

\* lines 41-42: results = model(image_np), one of Outs; output = {"objects": []}
SegmentInfer(r, Outs) ==
    /\ pc[r] = "infer"
    /\ cv_model = LoadedCvModel
    /\ \E res \in Outs :
        /\ frame' = Bind(frame, r, [frame[r] EXCEPT !.results = res, !.output = <<>>])
        /\ model_out' = [model_out EXCEPT ![r] = res]
    /\ calls' = [calls EXCEPT ![r] = Called(@, "infer")]
    /\ pc' = [pc EXCEPT ![r] = "loop"]
    /\ UNCHANGED <<cv_model, llm_model, route, data, response, origin>>
    /\ UNCHANGED pureVars

\* lines 44-78: one turn of the loops, at result fr.ri (from 1) and index fr.i
\* (from 0); the frame after it
LoopTurn(fr, names) ==
    LET result == fr.results[fr.ri]
        num_detections == Len(result.boxes)
    IN  IF fr.i >= num_detections
        THEN [fr EXCEPT !.ri = @ + 1, !.i = 0]
        ELSE LET det == result.boxes[fr.i + 1]
                 label == names[det.cls]
                 obj == BaseObject(label, det.conf, det.xyxy)
                 m == MaskIndex(fr.i, fr.output)
             IN  IF BelowThreshold(det.conf) THEN [fr EXCEPT !.i = @ + 1]
                 ELSE IF LabelRejected(label, fr.target_label)
                      THEN [fr EXCEPT !.i = @ + 1]
                 ELSE IF HasMask(result, m)
                      THEN [fr EXCEPT
                              !.output = Append(@,
                                  WithMask(obj, SegmentPoints(result.masks.xy[m + 1]))),
                              !.i = @ + 1]
                 ELSE [fr EXCEPT !.output = Append(@, obj), !.i = @ + 1]

SegmentLoop(r) ==
    /\ pc[r] = "loop"
    /\ frame[r].ri <= Len(frame[r].results)
    /\ frame' = Bind(frame, r, LoopTurn(frame[r], cv_model.names))
    /\ origin' = [origin EXCEPT ![r] =
                    IF Len(frame'[r].output) > Len(frame[r].output)
                    THEN Append(@, <<frame[r].ri, frame[r].i>>) ELSE @]
    /\ UNCHANGED <<cv_model, llm_model, pc, route, data, response, calls, model_out>>
    /\ UNCHANGED pureVars

\* line 80: return jsonify(output)
SegmentReturn(r) ==
    /\ pc[r] = "loop"
    /\ frame[r].ri > Len(frame[r].results)
    /\ response' = Bind(response, r, Ok([objects |-> frame[r].output]))
    /\ pc' = [pc EXCEPT ![r] = "done"]
    /\ UNCHANGED <<cv_model, llm_model, route, data, frame, calls, model_out, origin>>
    /\ UNCHANGED pureVars

---------------------------------------------------------------------------
(* LLMServer.py: POST /llm.                                                *)

\* a token of the vocabulary: a special token or a piece of text
Token(special, text) == [special |-> special, text |-> text]

BOS == Token(TRUE, "<bos>")

\* tokenizer(text)["input_ids"]: the turn markers are special tokens
Encode(text) ==
    <<BOS>> \o [n \in 1..Len(text) |-> Token(text[n] \in {SOT, EOT}, text[n])]

RECURSIVE Decode(_)
\* tokenizer.decode(tokens, skip_special_tokens=True)
Decode(tokens) ==
    IF tokens = <<>> THEN <<>>
    ELSE (IF Head(tokens).special THEN <<>> ELSE <<Head(tokens).text>>)
         \o Decode(Tail(tokens))

\* a slip: the prompt is not trimmed before the test
PromptOfMutant(d) == Get(d, "prompt")

\* data.get("prompt", "").strip()
PromptOf(d) == Strip(Get(d, "prompt"))

\* lines 79-82
LlmRecv(r) ==
    /\ pc[r] = "recv"
    /\ route[r] = "/llm"
    /\ IF PromptOf(data[r]) = <<>>
       THEN /\ response' = Bind(response, r, BadRequest("No prompt provided"))
            /\ pc' = [pc EXCEPT ![r] = "done"]
            /\ UNCHANGED frame
       ELSE /\ frame' = Bind(frame, r,
                   [prompt |-> PromptOf(data[r]), formatted_prompt |-> <<>>,
                    inputs |-> <<>>, outputs |-> <<>>])
            /\ pc' = [pc EXCEPT ![r] = "tokenize"]
            /\ UNCHANGED response
    /\ UNCHANGED <<cv_model, llm_model, route, data, calls, model_out, origin>>
    /\ UNCHANGED pureVars

\* lines 84-85
LlmTokenize(r) ==
    /\ pc[r] = "tokenize"
    /\ llm_model = LoadedLlmModel
    /\ frame' = Bind(frame, r,
           [frame[r] EXCEPT
               !.formatted_prompt = format_prompt(frame[r].prompt),
               !.inputs = Encode(format_prompt(frame[r].prompt))])
    /\ calls' = [calls EXCEPT ![r] = Called(@, "tokenizer")]
    /\ pc' = [pc EXCEPT ![r] = "generate"]
    /\ UNCHANGED <<cv_model, llm_model, route, data, response, model_out, origin>>
    /\ UNCHANGED pureVars

\* lines 87-97: outputs[0] is the input ids followed by the new tokens, one of Gens
LlmGenerate(r, Gens) ==
    /\ pc[r] = "generate"
    /\ llm_model = LoadedLlmModel
    /\ \E new \in Gens :
        /\ frame' = Bind(frame, r, [frame[r] EXCEPT !.outputs = frame[r].inputs \o new])
        /\ model_out' = [model_out EXCEPT ![r] = new]
    /\ calls' = [calls EXCEPT ![r] = Called(@, "generate")]
    /\ pc' = [pc EXCEPT ![r] = "respond"]
    /\ UNCHANGED <<cv_model, llm_model, route, data, response, origin>>
    /\ UNCHANGED pureVars

\* lines 99-101: the reply the handler returns
LlmReply(fr) ==
    LET input_length == Len(fr.inputs)
        new_tokens == SliceFrom(fr.outputs, input_length)
    IN  Strip(Decode(new_tokens))

\* lines 99-102
LlmRespond(r) ==
    /\ pc[r] = "respond"
    /\ response' = Bind(response, r, Ok([response |-> LlmReply(frame[r])]))
    /\ calls' = [calls EXCEPT ![r] = Called(@, "tokenizer")]
    /\ pc' = [pc EXCEPT ![r] = "done"]
    /\ UNCHANGED <<cv_model, llm_model, route, data, frame, model_out, origin>>
    /\ UNCHANGED pureVars

---------------------------------------------------------------------------
(* Inputs: request bodies and what the opaque models return.               *)

Images == {"png", "bad_base64", "not_an_image"}

Targets == {<<>>, <<SP, TAB>>, <<SP, "c", "A", "T", NL>>, <<"d", "o", "g">>}

\* the JSON objects with an optional "image" and an optional "target"
SegmentBodies ==
    {[image |-> im] : im \in Images}
    \cup {[target |-> t] : t \in Targets}
    \cup {[image |-> im, target |-> t] : im \in Images, t \in Targets}
    \cup {[other |-> ""]}

\* the model's floats, in thousandths: one detection at the threshold, one
\* just below it
DetCat == [xyxy |-> <<10000, 20000, 50500, 80250>>, cls |-> 0, conf |-> 650]

DetDog == [xyxy |-> <<1125, 2375, 3004, 4006>>, cls |-> 1, conf |-> 649]

SampleDetections == {DetCat, DetDog}

\* the polygon of the mask at index j (from 0)
SamplePolygon(j) == <<<<1125 + 1000 * j, 2004>>, <<3375, 4006 + 1000 * j>>>>

\* result.masks of a result with n boxes: None, or polygons for the first m
MasksFor(n) ==
    {[present |-> FALSE, xy |-> <<>>]}
    \cup {[present |-> TRUE, xy |-> [j \in 1..m |-> SamplePolygon(j - 1)]] : m \in 0..n}

ResultSets(n) ==
    {[boxes |-> b, masks |-> ms] : b \in [1..n -> SampleDetections], ms \in MasksFor(n)}

RECURSIVE ResultLists(_, _)
\* the lists of at most n result sets holding at most budget detections
ResultLists(n, budget) ==
    IF n = 0 THEN {<<>>}
    ELSE {<<>>} \cup
         UNION {{<<rs>> \o rest : rs \in ResultSets(k),
                                  rest \in ResultLists(n - 1, budget - k)}
                : k \in 0..budget}

AllResults == ResultLists(MaxResults, MaxDetections)

LlmBodies ==
    {[other |-> ""]}
    \cup {[prompt |-> p] : p \in {<<>>, <<SP, NL>>, <<TAB, "a", SP>>, <<"a", SP, "a">>}}

\* what a generated token may be: the end marker as the special token, text,
\* and the markers spelled out as text
GenVocabulary ==
    {Token(TRUE, EOT), Token(FALSE, "a"), Token(FALSE, SP),
     Token(FALSE, SOT), Token(FALSE, ASSISTANT)}

\* generation stops at the end-of-turn token (eos_token_id of line 95)
AllGenerations ==
    {g \in TextsUpTo(GenVocabulary, MaxNewTokens) :
        \A n \in 1..(Len(g) - 1) : g[n] # Token(TRUE, EOT)}

---------------------------------------------------------------------------
(* One /segment request, over every bounded model output.                  *)

InitSegment == ServerInit({1}) /\ PureIdle

NextSegment ==
    \/ Post(1, "/segment", SegmentBodies)
    \/ SegmentRecv(1)
    \/ SegmentDecode(1)
    \/ SegmentInfer(1, AllResults)
    \/ SegmentLoop(1)
    \/ SegmentReturn(1)

SpecSegment == InitSegment /\ [][NextSegment]_vars

(* One /llm request, over every bounded generation.                        *)

InitLlm == ServerInit({1}) /\ PureIdle

NextLlm ==
    \/ Post(1, "/llm", LlmBodies)
    \/ LlmRecv(1)
    \/ LlmTokenize(1)
    \/ LlmGenerate(1, AllGenerations)
    \/ LlmRespond(1)

SpecLlm == InitLlm /\ [][NextLlm]_vars

---------------------------------------------------------------------------
(* Both servers, with concurrent requests on sample inputs.                *)

SampleSegmentBodies ==
    {[target |-> <<"d", "o", "g">>],
     [image |-> "png"],
     [image |-> "png", target |-> <<SP, "c", "A", "T", NL>>]}

SampleResults ==
    {<<[boxes |-> <<DetDog, DetCat>>,
        masks |-> [present |-> TRUE, xy |-> <<SamplePolygon(0), SamplePolygon(1)>>]]>>,
     <<[boxes |-> <<DetCat>>, masks |-> [present |-> FALSE, xy |-> <<>>]]>>}

SampleLlmBodies == {[prompt |-> <<SP, NL>>], [prompt |-> <<TAB, "a", SP>>]}

SampleGenerations ==
    {<<Token(FALSE, SP), Token(FALSE, "a"), Token(TRUE, EOT)>>,
     <<Token(FALSE, "a"), Token(FALSE, "a")>>}

Init == ServerInit(Reqs) /\ PureIdle

Next ==
    \E r \in Reqs :
        \/ Post(r, "/segment", SampleSegmentBodies)
        \/ SegmentRecv(r)
        \/ SegmentDecode(r)
        \/ SegmentInfer(r, SampleResults)
        \/ SegmentLoop(r)
        \/ SegmentReturn(r)
        \/ Post(r, "/llm", SampleLlmBodies)
        \/ LlmRecv(r)
        \/ LlmTokenize(r)
        \/ LlmGenerate(r, SampleGenerations)
        \/ LlmRespond(r)

Spec == Init /\ [][Next]_vars

---------------------------------------------------------------------------
(* The pure functions of LLMServer.py applied to bounded inputs.           *)

ExtractAlphabet == {SOT, EOT, ASSISTANT, NL, SP, TAB, "a"}

PromptAlphabet == {SOT, ASSISTANT, EOT, SP}

\* a reply holds neither marker
ReplyAlphabet == {"a", SP, NL}

TailAlphabet == {SOT, ASSISTANT, "a"}

\* the generation continues the formatted prompt: reply, end marker, more text
Generate ==
    /\ xpc = "prompt"
    /\ full_response' = format_prompt(user_prompt) \o reply_text \o <<EOT>> \o tail_text
    /\ xpc' = "input"
    /\ UNCHANGED <<user_prompt, reply_text, tail_text, extracted>>
    /\ UNCHANGED serverVars

Extract ==
    /\ xpc = "input"
    /\ extracted' = extract_assistant_response(full_response)
    /\ xpc' = "done"
    /\ UNCHANGED <<user_prompt, reply_text, tail_text, full_response>>
    /\ UNCHANGED serverVars

InitExtract ==
    /\ ServerInit({})
    /\ xpc = "input"
    /\ user_prompt = <<>>
    /\ reply_text = <<>>
    /\ tail_text = <<>>
    /\ full_response \in TextsUpTo(ExtractAlphabet, MaxTextLen)
    /\ extracted = <<>>

NextExtract == Extract

SpecExtract == InitExtract /\ [][NextExtract]_vars

InitRoundTrip ==
    /\ ServerInit({})
    /\ xpc = "prompt"
    /\ user_prompt \in TextsUpTo(PromptAlphabet, MaxPromptLen)
    /\ reply_text \in TextsUpTo(ReplyAlphabet, MaxReplyLen)
    /\ tail_text \in TextsUpTo(TailAlphabet, MaxTailLen)
    /\ full_response = <<>>
    /\ extracted = <<>>

NextRoundTrip == Generate \/ Extract

SpecRoundTrip == InitRoundTrip /\ [][NextRoundTrip]_vars

---------------------------------------------------------------------------
(* What the claims say of a text, stated without the code's operations.    *)

\* positions (1-based) where the marker <start_of_turn>assistant starts
AssistantMarks(text) ==
    {i \in 1..(Len(text) - 1) : text[i] = SOT /\ text[i + 1] = ASSISTANT}

\* s without the atoms before position i
From(s, i) == [j \in 1..(Len(s) - i + 1) |-> s[i + j - 1]]

\* s without its leading atoms of cs
DropLeading(s, cs) ==
    IF \A i \in 1..Len(s) : s[i] \in cs THEN <<>>
    ELSE From(s, CHOOSE i \in 1..Len(s) :
                    s[i] \notin cs /\ \A j \in 1..(i - 1) : s[j] \in cs)

\* s cut before the first atom a, whole when it holds none
CutAtFirst(s, a) ==
    IF \A i \in 1..Len(s) : s[i] # a THEN s
    ELSE [j \in 1..((CHOOSE i \in 1..Len(s) :
                        s[i] = a /\ \A k \in 1..(i - 1) : s[k] # a) - 1) |-> s[j]]

\* s without its trailing whitespace
DropTrailingSpace(s) ==
    IF \A i \in 1..Len(s) : s[i] \in Whitespace THEN <<>>
    ELSE [j \in 1..(CHOOSE i \in 1..Len(s) :
                       s[i] \notin Whitespace
                       /\ \A k \in (i + 1)..Len(s) : s[k] \in Whitespace) |-> s[j]]

\* s trimmed of surrounding whitespace
Trimmed(s) == DropTrailingSpace(DropLeading(s, Whitespace))

Holds(s, a) == \E i \in 1..Len(s) : s[i] = a

ExpectedReply(text) ==
    IF AssistantMarks(text) = {} THEN Trimmed(text)
    ELSE LET last == CHOOSE i \in AssistantMarks(text) :
                         \A j \in AssistantMarks(text) : j <= i
             after == From(text, last + 2)
         IN  Trimmed(CutAtFirst(CutAtFirst(DropLeading(after, {NL, SP}), EOT), SOT))

\* C7: extract_assistant_response returns the text after the last
\* <start_of_turn>assistant, leading newlines and spaces removed, cut at the
\* first <end_of_turn>, then at the first <start_of_turn>, then trimmed; with
\* no such marker it returns the whole text trimmed.
C7_ExtractMatchesSteps ==
    xpc = "done" => extracted = ExpectedReply(full_response)

\* C7 witness: a text with two assistant markers was extracted to the reply
\* that follows the second.
C7_Witness ==
    /\ xpc = "done"
    /\ Cardinality(AssistantMarks(full_response)) = 2
    /\ extracted = <<"a">>

\* C9 as stated: the reply of every text holds neither marker.
C9_NoMarkersEver ==
    xpc = "done" => ~Holds(extracted, SOT) /\ ~Holds(extracted, EOT)

\* C9 amended: the reply of a text that holds <start_of_turn>assistant holds
\* neither <start_of_turn> nor <end_of_turn>.
C9_NoMarkersAfterAssistantTurn ==
    (xpc = "done" /\ AssistantMarks(full_response) # {})
        => ~Holds(extracted, SOT) /\ ~Holds(extracted, EOT)

\* C9 witness: a text with an assistant turn followed by a reply and a further
\* marker was extracted.
C9_Witness ==
    /\ xpc = "done"
    /\ AssistantMarks(full_response) = {1}
    /\ Len(full_response) = 5
    /\ full_response[3] = "a"
    /\ Holds(From(full_response, 4), EOT) \/ Holds(From(full_response, 4), SOT)
    /\ extracted = <<"a">>

TemplateHead == <<SOT, "system", NL, SYSTEM_TEXT, NL, EOT, NL, SOT, "user", NL>>

TemplateFoot == <<NL, EOT, NL, SOT, ASSISTANT, NL>>

\* the generated text is the template around the verbatim prompt, then the
\* reply, the end marker and the tail
EmbedsPromptVerbatim ==
    LET n == Len(user_prompt)
    IN  /\ Len(full_response) = 10 + n + 6 + Len(reply_text) + 1 + Len(tail_text)
        /\ \A i \in 1..10 : full_response[i] = TemplateHead[i]
        /\ \A i \in 1..n : full_response[10 + i] = user_prompt[i]
        /\ \A i \in 1..6 : full_response[10 + n + i] = TemplateFoot[i]
        /\ \A i \in 1..Len(reply_text) : full_response[16 + n + i] = reply_text[i]
        /\ full_response[17 + n + Len(reply_text)] = EOT

\* C8 as stated: for every prompt, marker-free reply and tail, extraction of
\* format_prompt(p) + r + <end_of_turn> + t is r trimmed.
C8_RoundTripAnyTail ==
    /\ xpc # "prompt" => EmbedsPromptVerbatim
    /\ xpc = "done" => extracted = Trimmed(reply_text)

\* C8 amended: format_prompt embeds the prompt verbatim in the template, and
\* when the tail holds no <start_of_turn>assistant the extraction of
\* format_prompt(p) + r + <end_of_turn> + t is r trimmed.
C8_RoundTripTailWithoutAssistantTurn ==
    /\ xpc # "prompt" => EmbedsPromptVerbatim
    /\ (xpc = "done" /\ AssistantMarks(tail_text) = {})
           => extracted = Trimmed(reply_text)

\* C8 witness: a prompt holding an assistant marker, a reply with surrounding
\* whitespace and a tail that opens another turn went through the round trip.
C8_Witness ==
    /\ xpc = "done"
    /\ user_prompt = <<SOT, ASSISTANT>>
    /\ reply_text = <<SP, "a">>
    /\ tail_text = <<SOT, "a">>
    /\ extracted = <<"a">>

---------------------------------------------------------------------------
(* What the claims say of a /segment request.                              *)

\* the target is absent, empty or only whitespace
NoFilter(d) ==
    "target" \notin DOMAIN d \/ \A n \in 1..Len(d.target) : d.target[n] \in Whitespace

SameIgnoringCase(a, b) ==
    Len(a) = Len(b) /\ \A n \in 1..Len(a) : LowerChar(a[n]) = LowerChar(b[n])

\* the detection at index i (from 0) of result set k (from 1)
DetAt(results, p) == results[p[1]].boxes[p[2] + 1]

\* the detection passes the confidence threshold and the target filter
Passes(det, d) ==
    /\ det.conf >= 650
    /\ NoFilter(d) \/ SameIgnoringCase(ModelNames[det.cls], Trimmed(d.target))

RECURSIVE IndicesFrom(_, _)
\* the (result set, index) pairs of the model's output, in model order
IndicesFrom(results, k) ==
    IF k > Len(results) THEN <<>>
    ELSE [n \in 1..Len(results[k].boxes) |-> <<k, n - 1>>] \o IndicesFrom(results, k + 1)

KeptIndices(results, d) ==
    LET Keep(p) == Passes(DetAt(results, p), d)
    IN  SelectSeq(IndicesFrom(results, 1), Keep)

\* label, score and box of the object of a detection
ExpectedCore(det) ==
    [label |-> ModelNames[det.cls],
     score |-> Round2(det.conf),
     box |-> [x |-> Round2(det.xyxy[1]), y |-> Round2(det.xyxy[2]),
              width |-> Round2(det.xyxy[3] - det.xyxy[1]),
              height |-> Round2(det.xyxy[4] - det.xyxy[2])]]

Core(obj) == [label |-> obj.label, score |-> obj.score, box |-> obj.box]

\* the polygon list of result set k has an entry at index i
MaskExists(results, p) ==
    results[p[1]].masks.present /\ p[2] < Len(results[p[1]].masks.xy)

\* the points of the polygon at index i, each coordinate to two decimals
ExpectedPoints(results, p) ==
    LET polygon == results[p[1]].masks.xy[p[2] + 1]
    IN  [n \in 1..Len(polygon) |-> <<Round2(polygon[n][1]), Round2(polygon[n][2])>>]

Answered(r) == pc[r] = "done" /\ response[r].status = 200

ImagePosted(r, kind) ==
    pc[r] # "idle" /\ route[r] = "/segment" /\ "image" \in DOMAIN data[r]
    /\ data[r].image = kind

\* C1: the objects returned are exactly the detections, in model order, with
\* confidence >= 0.65 and a label that passes the target filter (no filter
\* when the target is absent, empty or whitespace; else the label equals the
\* trimmed target case-insensitively).
C1_ObjectsAreFilteredDetections ==
    \A r \in DOMAIN pc :
        (route[r] = "/segment" /\ Answered(r)) =>
            LET objects == response[r].body.objects
                kept == KeptIndices(model_out[r], data[r])
            IN  /\ origin[r] = kept
                /\ Len(objects) = Len(kept)
                /\ \A j \in 1..Len(kept) :
                       Core(objects[j]) = ExpectedCore(DetAt(model_out[r], kept[j]))

\* C1 witness: with a target that needs trimming and case folding, two result
\* sets were answered with one object from each, a low-confidence detection in
\* between being dropped.
C1_Witness ==
    /\ route[1] = "/segment" /\ Answered(1)
    /\ "target" \in DOMAIN data[1] /\ data[1].target = <<SP, "c", "A", "T", NL>>
    /\ Len(model_out[1]) = 2
    /\ Len(model_out[1][1].boxes) = 2
    /\ origin[1] = <<<<1, 0>>, <<2, 0>>>>
    /\ Len(response[1].body.objects) = 2

\* C2: an object built from the detection at index i carries a mask exactly
\* when the result set has polygon masks and i is below the polygon list's
\* length, and then its points are those of the polygon at index i, in order
\* (each coordinate to two decimals).
C2_MaskIsPolygonAtModelIndex ==
    \A r \in DOMAIN pc :
        (route[r] = "/segment" /\ (pc[r] = "loop" \/ Answered(r))) =>
            /\ Len(origin[r]) = Len(frame[r].output)
            /\ \A j \in 1..Len(frame[r].output) :
                   LET obj == frame[r].output[j]
                   IN  /\ ("mask" \in DOMAIN obj) <=> MaskExists(model_out[r], origin[r][j])
                       /\ "mask" \in DOMAIN obj =>
                              obj.mask.points = ExpectedPoints(model_out[r], origin[r][j])
            /\ Answered(r) => response[r].body.objects = frame[r].output

\* C2 witness: the first detection was dropped, the second got the polygon of
\* index 1, the third is beyond the polygon list and got no mask.
C2_Witness ==
    /\ route[1] = "/segment" /\ Answered(1)
    /\ origin[1] = <<<<1, 1>>, <<1, 2>>>>
    /\ Len(model_out[1][1].masks.xy) = 2
    /\ "mask" \in DOMAIN response[1].body.objects[1]
    /\ "mask" \notin DOMAIN response[1].body.objects[2]

\* C3: a request without an image field is answered 400 "No image provided"
\* and ends without decoding an image and without invoking the model.
C3_MissingImageIs400 ==
    \A r \in DOMAIN pc :
        (pc[r] # "idle" /\ route[r] = "/segment" /\ "image" \notin DOMAIN data[r]) =>
            /\ pc[r] \in {"recv", "done"}
            /\ calls[r].decode = 0 /\ calls[r].infer = 0
            /\ pc[r] = "done" =>
                   /\ response[r].status = 400
                   /\ response[r].body = [error |-> "No image provided"]

\* C3 witness: a body with a target and no image was answered.
C3_Witness ==
    /\ pc[1] = "done" /\ route[1] = "/segment"
    /\ DOMAIN data[1] = {"target"}
    /\ response[1].status = 400

\* C4 as stated: an image field that is malformed base64 or no image ends the
\* request with a client-error response carrying an error message, without
\* invoking the model and without an objects body.
C4_InvalidImageIsClientError ==
    \A r \in DOMAIN pc :
        ((ImagePosted(r, "bad_base64") \/ ImagePosted(r, "not_an_image"))
         /\ pc[r] = "done") =>
            /\ response[r].status \in 400..499
            /\ "error" \in DOMAIN response[r].body
            /\ "objects" \notin DOMAIN response[r].body
            /\ calls[r].infer = 0

---------------------------------------------------------------------------
(* What the claims say of a /llm request.                                  *)

\* the prompt is missing, empty or blank
BlankPrompt(d) ==
    "prompt" \notin DOMAIN d \/ \A n \in 1..Len(d.prompt) : d.prompt[n] \in Whitespace

\* the text of the tokens that are not special
TextOf(tokens) ==
    LET NotSpecial(t) == ~t.special
        kept == SelectSeq(tokens, NotSpecial)
    IN  [n \in 1..Len(kept) |-> kept[n].text]

\* the text of all the tokens, markers included
RawTextOf(tokens) == [n \in 1..Len(tokens) |-> tokens[n].text]

\* C5: a missing, empty or blank prompt is answered 400 "No prompt provided"
\* with neither the tokenizer nor generate invoked; a non-blank prompt has the
\* model invoked exactly once.
C5_BlankPromptIs400 ==
    \A r \in DOMAIN pc :
        (pc[r] # "idle" /\ route[r] = "/llm") =>
            IF BlankPrompt(data[r])
            THEN /\ pc[r] \in {"recv", "done"}
                 /\ calls[r].tokenizer = 0 /\ calls[r].generate = 0
                 /\ pc[r] = "done" =>
                        /\ response[r].status = 400
                        /\ response[r].body = [error |-> "No prompt provided"]
            ELSE /\ calls[r].generate <= 1
                 /\ pc[r] = "done" =>
                        /\ response[r].status = 200
                        /\ calls[r].generate = 1

\* C5 witness: a whitespace-only prompt was answered, the model not invoked.
C5_Witness ==
    /\ pc[1] = "done" /\ route[1] = "/llm"
    /\ "prompt" \in DOMAIN data[1] /\ data[1].prompt = <<SP, NL>>
    /\ response[1].status = 400

\* C6 as stated: the response is the response-path extraction applied to the
\* text decoded from the generation (the decoded new tokens, or the formatted
\* prompt followed by the generated text).
C6_ResponseIsExtraction ==
    \A r \in DOMAIN pc :
        (route[r] = "/llm" /\ Answered(r)) =>
            \/ response[r].body.response
                  = ExpectedReply(TextOf(model_out[r]))
            \/ response[r].body.response
                  = ExpectedReply(frame[r].formatted_prompt \o RawTextOf(model_out[r]))

---------------------------------------------------------------------------
(* What the claims say of concurrent requests.                             *)

\* the objects a /segment request run alone returns for results
ObjectsAlone(results, d) ==
    LET kept == KeptIndices(results, d)
    IN  [j \in 1..Len(kept) |->
            IF MaskExists(results, kept[j])
            THEN [label |-> ExpectedCore(DetAt(results, kept[j])).label,
                  score |-> ExpectedCore(DetAt(results, kept[j])).score,
                  box |-> ExpectedCore(DetAt(results, kept[j])).box,
                  mask |-> [points |-> ExpectedPoints(results, kept[j])]]
            ELSE ExpectedCore(DetAt(results, kept[j]))]

\* the response of request r when it runs alone with the same model output
ResponseAlone(r) ==
    IF route[r] = "/segment"
    THEN IF "image" \notin DOMAIN data[r]
         THEN [status |-> 400, body |-> [error |-> "No image provided"]]
         ELSE IF data[r].image # "png"
         THEN [status |-> 500, body |-> [html |-> "Internal Server Error"]]
         ELSE [status |-> 200, body |-> [objects |-> ObjectsAlone(model_out[r], data[r])]]
    ELSE IF BlankPrompt(data[r])
         THEN [status |-> 400, body |-> [error |-> "No prompt provided"]]
         ELSE [status |-> 200, body |-> [response |-> Trimmed(TextOf(model_out[r]))]]

\* a step touches the locals and the response of one request only
OwnStateOnly ==
    \E r \in DOMAIN pc :
        \A q \in DOMAIN pc \ {r} : frame'[q] = frame[q] /\ response'[q] = response[q]

ModelsNeverReassigned == cv_model' = cv_model /\ llm_model' = llm_model

\* C10: in every interleaving of concurrent requests each response is the one
\* the request gets when it runs alone with the same model output, no step
\* writes state another request reads, and the loaded models are never
\* reassigned.
C10_RequestsAreIndependent ==
    /\ [](\A r \in DOMAIN pc : pc[r] = "done" => response[r] = ResponseAlone(r))
    /\ [][OwnStateOnly /\ ModelsNeverReassigned]_vars

\* C10 witness: request 1 was answered with objects while request 2, with
\* another target, was in the middle of its loop.
C10_Witness ==
    /\ route[1] = "/segment" /\ route[2] = "/segment"
    /\ Answered(1) /\ response[1].body.objects # <<>>
    /\ pc[2] = "loop" /\ frame[2].i = 1
    /\ frame[2].target_label # frame[1].target_label

===========================================================================
